---- MODULE Spec2Model ----
(***************************************************************************)
(* QuizMania backend (src/backend/app.py): the in-memory quiz catalog and  *)
(* the quiz-collaboration endpoints, as a state machine.                   *)
(*                                                                         *)
(* State: the module-level lists `quizzes`, `quiz_history`,                 *)
(* `quiz_collaborators` and `collaboration_invitations`, and the rows of   *)
(* the database tables `quizzes` (db_quizzes), `users` and `quiz_results`. *)
(* Every HTTP handler is one                                               *)
(* action; the request it served and the response it gave are kept in     *)
(* `call` and `response`, so that properties can speak about the outcome   *)
(* of a call.                                                              *)
(*                                                                         *)
(* Python dicts are records; a key a dict does not hold is absent from the *)
(* record's DOMAIN, and subscripting it (d["k"]) raises KeyError, which the*)
(* framework turns into a 500 response.  Timestamps (created_at, joined_at,*)
(* responded_at, created_date) are left out: no handler reads them back to *)
(* decide anything.                                                        *)
(***************************************************************************)
EXTENDS Integers, Sequences, FiniteSets, TLC

VARIABLES quizzes, quiz_collaborators, collaboration_invitations, call, response,
          quiz_history, db_quizzes, users, quiz_results

vars == <<quizzes, quiz_collaborators, collaboration_invitations, call, response,
          quiz_history, db_quizzes, users, quiz_results>>

collab == <<quiz_collaborators, collaboration_invitations>>

\* The attempt history and the database tables (quizzes, users, quiz_results): what
\* the catalog and collaboration handlers never touch.
other == <<quiz_history, db_quizzes, users, quiz_results>>

----------------------------------------------------------------------------
(* Bounds and input domains *)

\* The catalog is unbounded in the program; the model stops adding at MaxQuizzes.
MaxQuizzes == 2

Users == {"alice", "bob", "carol"}

\* The marker of a key the request body does not carry (dict.get's default case).
Absent == "<absent>"

\* role values a caller may send; Absent: no "role" key in the body
RoleInputs == {Absent, "admin"}

\* action values a caller may send to respond-invitation
ActionInputs == {"accept", "decline", "Accept"}

\* quiz ids a caller may name: the assigned ones and one that never exists
QuizIdInputs == 1..(MaxQuizzes + 1)

\* invitation ids a caller may name
InvitationIdInputs == 1..2

\* The answers of a submission, each the label of Answer.answer (Answer.question_id
\* is read by no handler).  The last one is longer than the quizzes of ValidQuizInputs.
AnswerLists == { <<>>, <<"B">>, <<"A">>, <<"B", "A">> }

\* usernames a submission may carry
SubmitUsers == {"alice", "bob"}

RequiredFields == <<"title", "description", "category", "difficulty", "time_limit", "questions">>

Labels == {"A", "B", "C", "D"}

\* A question as the client sends it: options is the list of option strings.
Q(text, options, correct) == [question |-> text, options |-> options, correct |-> correct]

GoodQuestions == <<Q("1+1?", <<"1", "2", "3", "4">>, "B")>>

\* A correct label create_quiz rejects and import_quiz does not look at.
BadLabelQuestions == <<Q("1+1?", <<"1", "2">>, "E")>>

\* Question lists both create_quiz and import_quiz reject.
BadQuestionLists ==
    { <<>>,
      <<Q("1+1?", <<"1">>, "B")>>,
      <<[question |-> "1+1?", options |-> <<"1", "2">>]>> }

\* A request body carrying every required field.
QuizData(title, questions) ==
    [title |-> title, description |-> "d", category |-> "Math",
     difficulty |-> "Easy", time_limit |-> 60, questions |-> questions]

\* The same body with a "created_by" key.
QuizDataBy(title, questions, created_by) ==
    [title |-> title, description |-> "d", category |-> "Math",
     difficulty |-> "Easy", time_limit |-> 60, questions |-> questions,
     created_by |-> created_by]

\* Bodies with several faults at once: two fields missing, a missing field and a
\* bad question, a good question before a bad one, two bad questions.
MoreInvalidQuizInputs ==
    { [description |-> "d", difficulty |-> "Easy", time_limit |-> 60,
       questions |-> BadLabelQuestions],
      [title |-> "Math", description |-> "d", difficulty |-> "Easy", questions |-> <<>>],
      QuizData("Math", GoodQuestions \o BadLabelQuestions),
      QuizData("Math", <<Q("1+1?", <<"1">>, "E")>> \o BadLabelQuestions),
      QuizData("Math", <<[question |-> "1+1?", correct |-> "E"]>> \o GoodQuestions) }

\* Request bodies of /create-quiz.
ValidQuizInputs ==
    { QuizData("Math", GoodQuestions), QuizDataBy("Math", GoodQuestions, "alice") }

InvalidQuizInputs ==
    { QuizDataBy("Math", qs, "alice") : qs \in BadQuestionLists \cup {BadLabelQuestions} }
    \cup { [title |-> "Math"],
           [title |-> "Math", description |-> "d", category |-> "Math",
            difficulty |-> "Easy", time_limit |-> 60] }
    \cup MoreInvalidQuizInputs

QuizInputs == ValidQuizInputs \cup InvalidQuizInputs

\* import_options that is the empty dict
NoOptions == [x \in {} |-> Absent]

\* Request bodies of /import-quiz: quiz_data and import_options.
ImportInputs ==
    { [quiz_data |-> QuizData("Python", qs), import_options |-> [created_by |-> "bob"]] :
        qs \in {GoodQuestions, BadLabelQuestions} }
    \cup { [quiz_data |-> QuizData("Python", qs), import_options |-> NoOptions] :
             qs \in {GoodQuestions, <<>>} }
    \cup { [quiz_data |-> [title |-> "Python"], import_options |-> NoOptions] }

----------------------------------------------------------------------------
(* Inputs of the scoring, analytics, search and account endpoints *)

\* The quiz_results table is unbounded in the program; the model stops adding at
\* MaxResults.
MaxResults == 2

\* A quiz of three questions, whose correct labels are B, A, B.
ThreeQuestions ==
    <<Q("1+1?", <<"1", "2", "3", "4">>, "B"),
      Q("2+2?", <<"4", "5">>, "A"),
      Q("3+3?", <<"5", "6", "7">>, "B")>>

\* Valid request bodies of /create-quiz: a quiz of three questions and a quiz of one.
AttemptQuizInputs ==
    { QuizDataBy("Math", ThreeQuestions, "alice"),
      [QuizDataBy("Python", GoodQuestions, "bob") EXCEPT
          !["description"] = "Snake", !["category"] = "Code"] }

\* Answers of a submission: none, fewer than three, three (one, two or three of
\* them correct for ThreeQuestions), and four.
AttemptAnswerLists ==
    { <<>>, <<"B">>, <<"A", "B", "A">>, <<"B", "C", "C">>, <<"B", "A", "C">>,
      <<"B", "A", "B">>, <<"B", "A", "B", "A">> }

\* Query strings of /search, as lists of characters.
SearchTerms ==
    { <<>>, <<"M", "A">>, <<"t", "h">>, <<"C", "o">>, <<"s", "n">>, <<"x">> }

\* Request bodies of /register.
RegisterInputs ==
    { [username |-> u, email |-> e, password |-> "pw"] :
        u \in {"alice", "bob"}, e \in {"a@x", "b@x"} }

\* Request bodies of POST /quiz-history.
ResultInputs ==
    { [x \in {} |-> Absent],
      [username |-> "bob", score |-> 80, total_questions |-> 1] }

----------------------------------------------------------------------------
(* Dicts, lists, strings and responses *)

HasKey(d, k) == k \in DOMAIN d

\* d.get(k, default)
Get(d, k, default) == IF HasKey(d, k) THEN d[k] ELSE default

Min(S) == CHOOSE x \in S : \A y \in S : x <= y

\* next((x for x in seq if ...), None), S being the indices of the elements that
\* match: the index of the first match, 0 for None
FirstIndex(S) == IF S = {} THEN 0 ELSE Min(S)

\* list.remove(seq[i])
RemoveAt(seq, i) == [j \in 1..(Len(seq) - 1) |-> IF j < i THEN seq[j] ELSE seq[j + 1]]

Max(S) == CHOOSE x \in S : \A y \in S : x >= y

Resp(status, detail) == [status |-> status, detail |-> detail]

\* An exception no handler catches: the server answers 500.
ServerError(exc) == [status |-> 500, detail |-> exc]

\* The characters of the strings quizzes carry in title, description and category.
Chars(str) ==
    CASE str = "Math"   -> <<"M", "a", "t", "h">>
      [] str = "Python" -> <<"P", "y", "t", "h", "o", "n">>
      [] str = "Snake"  -> <<"S", "n", "a", "k", "e">>
      [] str = "Code"   -> <<"C", "o", "d", "e">>
      [] str = "d"      -> <<"d">>

UpperCase ==
    <<"A", "B", "C", "D", "E", "F", "G", "H", "I", "J", "K", "L", "M",
      "N", "O", "P", "Q", "R", "S", "T", "U", "V", "W", "X", "Y", "Z">>

LowerCase ==
    <<"a", "b", "c", "d", "e", "f", "g", "h", "i", "j", "k", "l", "m",
      "n", "o", "p", "q", "r", "s", "t", "u", "v", "w", "x", "y", "z">>

\* str.lower(), character by character
Lower(chars) ==
    [i \in DOMAIN chars |->
        IF \E k \in DOMAIN UpperCase : UpperCase[k] = chars[i]
        THEN LowerCase[CHOOSE k \in DOMAIN UpperCase : UpperCase[k] = chars[i]]
        ELSE chars[i]]

\* a in b, for strings
IsSubstring(a, b) ==
    \E i \in 0..(Len(b) - Len(a)) : SubSeq(b, i + 1, i + Len(a)) = a

----------------------------------------------------------------------------
(* Init: the module-level lists as the import of app.py and on_startup leave them *)

Init ==
    /\ quizzes = <<>>
    /\ quiz_collaborators = <<>>
    /\ collaboration_invitations = <<>>
    /\ quiz_history = <<>>
    /\ db_quizzes = <<>>
    /\ users = <<>>
    /\ quiz_results = <<>>
    /\ call = [op |-> "none"]
    /\ response = Resp(0, "")

----------------------------------------------------------------------------
(* Quiz catalog *)

\* The first required field quiz_data lacks (its index in RequiredFields), 0 if none.
FirstMissingField(quiz_data) ==
    FirstIndex({i \in DOMAIN RequiredFields : ~HasKey(quiz_data, RequiredFields[i])})

QuestionKeys == {"question", "options", "correct"}

\* CreateQuestionError without the check of the correct label (line 393).
CreateQuestionError_NoLabelCheck(question) ==
    IF ~(\A key \in {"question", "options", "correct"} : HasKey(question, key))
    THEN "missing required fields"
    ELSE IF Len(question["options"]) < 2 THEN "must have at least 2 options"
    ELSE ""

\* create_quiz's check of one question: "" when it passes.
CreateQuestionError(question) ==
    IF ~(\A key \in QuestionKeys : HasKey(question, key)) THEN "missing required fields"
    ELSE IF Len(question["options"]) < 2 THEN "must have at least 2 options"
    ELSE IF question["correct"] \notin Labels THEN "correct answer must be A, B, C, or D"
    ELSE ""

\* The validation of create_quiz: the response it raises, or status 200.
CreateValidation(quiz_data) ==
    LET f == FirstMissingField(quiz_data) IN
    IF f # 0 THEN [status |-> 400, detail |-> "Missing required field", field |-> RequiredFields[f]]
    ELSE IF Len(quiz_data["questions"]) < 1
         THEN [status |-> 400, detail |-> "Quiz must have at least 1 question"]
    ELSE LET qs == quiz_data["questions"]
             i  == FirstIndex({k \in DOMAIN qs : CreateQuestionError(qs[k]) # ""})
         IN  IF i # 0
             THEN [status |-> 400, detail |-> CreateQuestionError(qs[i]), question |-> i]
             ELSE [status |-> 200, detail |-> "Quiz created successfully"]

\* new_id = max([q["id"] for q in quizzes]) + 1 if quizzes else 1
NewId ==
    IF Len(quizzes) > 0 THEN Max({quizzes[i].id : i \in 1..Len(quizzes)}) + 1 ELSE 1

\* The dict create_quiz appends.
NewQuiz(quiz_data) ==
    [id |-> NewId,
     title |-> quiz_data["title"],
     description |-> quiz_data["description"],
     category |-> quiz_data["category"],
     difficulty |-> quiz_data["difficulty"],
     time_limit |-> quiz_data["time_limit"],
     questions |-> quiz_data["questions"],
     created_by |-> Get(quiz_data, "created_by", "Anonymous"),
     attempts |-> 0,
     average_score |-> 0]

\* create_quiz appending the quiz once the required fields are there, before the
\* questions are checked.
create_quiz_AppendsBeforeQuestionChecks ==
    \E quiz_data \in QuizInputs :
        LET r == CreateValidation(quiz_data) IN
        /\ FirstMissingField(quiz_data) = 0 => Len(quizzes) < MaxQuizzes
        /\ call' = [op |-> "create", quiz_data |-> quiz_data]
        /\ quizzes' = IF FirstMissingField(quiz_data) = 0
                      THEN Append(quizzes, NewQuiz(quiz_data))
                      ELSE quizzes
        /\ response' = IF r.status = 200
                       THEN [status |-> 200, detail |-> r.detail, quiz_id |-> NewId]
                       ELSE r
        /\ UNCHANGED <<collab, other>>

\* create_quiz called with the body quiz_data
CreateQuiz(quiz_data) ==
    LET r == CreateValidation(quiz_data) IN
    /\ r.status = 200 => Len(quizzes) < MaxQuizzes
    /\ call' = [op |-> "create", quiz_data |-> quiz_data]
    /\ IF r.status = 200
       THEN /\ quizzes' = Append(quizzes, NewQuiz(quiz_data))
            /\ response' = [status |-> 200, detail |-> r.detail, quiz_id |-> NewId]
       ELSE /\ quizzes' = quizzes
            /\ response' = r
    /\ UNCHANGED <<collab, other>>

\* POST /create-quiz
create_quiz == \E quiz_data \in QuizInputs : CreateQuiz(quiz_data)

\* import_quiz's check of one question: "" when it passes.
ImportQuestionError(question) ==
    IF \E f \in QuestionKeys : ~HasKey(question, f) THEN "missing field"
    ELSE IF Len(question["options"]) < 2 THEN "must have at least 2 options"
    ELSE ""

\* The validation of import_quiz; every exception leaves as a 400 "Import failed".
ImportValidation(quiz_data) ==
    LET f == FirstMissingField(quiz_data) IN
    IF f # 0 THEN [status |-> 400, detail |-> "Import failed", field |-> RequiredFields[f]]
    ELSE IF Len(quiz_data["questions"]) = 0
         THEN [status |-> 400, detail |-> "Import failed"]
    ELSE LET qs == quiz_data["questions"]
             i  == FirstIndex({k \in DOMAIN qs : ImportQuestionError(qs[k]) # ""})
         IN  IF i # 0
             THEN [status |-> 400, detail |-> "Import failed", question |-> i]
             ELSE [status |-> 200, detail |-> "Quiz imported successfully"]

\* ImportedQuiz with the id off by one: the length of the catalog.
ImportedQuiz_IdIsLen(import_data) ==
    LET quiz_data == import_data.quiz_data IN
    [id |-> Len(quizzes),
     title |-> quiz_data["title"],
     description |-> quiz_data["description"],
     category |-> quiz_data["category"],
     difficulty |-> quiz_data["difficulty"],
     time_limit |-> quiz_data["time_limit"],
     questions |-> quiz_data["questions"],
     question_count |-> Len(quiz_data["questions"]),
     created_by |-> Get(import_data.import_options, "created_by", "Imported"),
     imported |-> TRUE,
     average_rating |-> 0]

\* The dict import_quiz appends.
ImportedQuiz(import_data) ==
    LET quiz_data == import_data.quiz_data IN
    [id |-> Len(quizzes) + 1,
     title |-> quiz_data["title"],
     description |-> quiz_data["description"],
     category |-> quiz_data["category"],
     difficulty |-> quiz_data["difficulty"],
     time_limit |-> quiz_data["time_limit"],
     questions |-> quiz_data["questions"],
     question_count |-> Len(quiz_data["questions"]),
     created_by |-> Get(import_data.import_options, "created_by", "Imported"),
     imported |-> TRUE,
     average_rating |-> 0]

\* POST /import-quiz
import_quiz ==
    \E import_data \in ImportInputs :
        LET r == ImportValidation(import_data.quiz_data) IN
        /\ r.status = 200 => Len(quizzes) < MaxQuizzes
        /\ call' = [op |-> "import", import_data |-> import_data]
        /\ IF r.status = 200
           THEN /\ quizzes' = Append(quizzes, ImportedQuiz(import_data))
                /\ response' = [status |-> 200, detail |-> r.detail,
                                quiz_id |-> Len(quizzes) + 1]
           ELSE /\ quizzes' = quizzes
                /\ response' = r
        /\ UNCHANGED <<collab, other>>

----------------------------------------------------------------------------
(* Quiz collaboration *)

\* next((q for q in quizzes if q["id"] == quiz_id), None), as an index (0: None)
FindQuiz(quiz_id) == FirstIndex({i \in DOMAIN quizzes : quizzes[i]["id"] = quiz_id})

\* invitation.get("role", "editor")
RoleOf(role) == IF role = Absent THEN "editor" ELSE role

\* invite_collaborator lines 780-782: the inviter's collaborator row with admin rights
InviterCollab(quiz_id, inviter) ==
    FirstIndex({i \in DOMAIN quiz_collaborators :
                   /\ quiz_collaborators[i]["quiz_id"] = quiz_id
                   /\ quiz_collaborators[i]["username"] = inviter
                   /\ quiz_collaborators[i]["role"] \in {"admin", "owner"}})

\* invite_collaborator lines 787-789: a pending invitation of the invitee for the quiz
ExistingInvitation(quiz_id, invitee) ==
    FirstIndex({i \in DOMAIN collaboration_invitations :
                   /\ collaboration_invitations[i]["quiz_id"] = quiz_id
                   /\ collaboration_invitations[i]["invitee"] = invitee
                   /\ collaboration_invitations[i]["status"] = "pending"})

\* lines 793-794 and 903-904: the collaborator row of a user for the quiz
ExistingCollaborator(quiz_id, username) ==
    FirstIndex({i \in DOMAIN quiz_collaborators :
                   /\ quiz_collaborators[i]["quiz_id"] = quiz_id
                   /\ quiz_collaborators[i]["username"] = username})

\* The checks of invite_collaborator in the order the code makes them.  The quiz
\* dict is subscripted with "creator" (line 779) before anything else is compared.
InviteResponse(quiz_id, inviter, invitee) ==
    LET qi == FindQuiz(quiz_id) IN
    IF qi = 0 THEN Resp(404, "Quiz not found")
    ELSE IF ~HasKey(quizzes[qi], "creator") THEN ServerError("KeyError: 'creator'")
    ELSE IF quizzes[qi]["creator"] # inviter /\ InviterCollab(quiz_id, inviter) = 0
         THEN Resp(403, "Insufficient permissions")
    ELSE IF ExistingInvitation(quiz_id, invitee) # 0 THEN Resp(400, "User already invited")
    ELSE IF ExistingCollaborator(quiz_id, invitee) # 0
         THEN Resp(400, "User already collaborating")
    ELSE Resp(200, "Invitation sent successfully")

\* The dict invite_collaborator appends.
NewInvitation(quiz_id, inviter, invitee, role) ==
    [id |-> Len(collaboration_invitations) + 1,
     quiz_id |-> quiz_id,
     inviter |-> inviter,
     invitee |-> invitee,
     role |-> RoleOf(role),
     status |-> "pending",
     quiz_title |-> quizzes[FindQuiz(quiz_id)]["title"]]

\* POST /quiz-collaboration/invite
invite_collaborator ==
    \E quiz_id \in QuizIdInputs, inviter \in Users, invitee \in Users, role \in RoleInputs :
        LET r == InviteResponse(quiz_id, inviter, invitee) IN
        /\ call' = [op |-> "invite", quiz_id |-> quiz_id, inviter |-> inviter,
                    invitee |-> invitee, role |-> role]
        /\ IF r.status = 200
           THEN /\ collaboration_invitations' =
                       Append(collaboration_invitations,
                              NewInvitation(quiz_id, inviter, invitee, role))
                /\ response' = [status |-> 200, detail |-> r.detail,
                                invitation_id |-> Len(collaboration_invitations) + 1]
           ELSE /\ collaboration_invitations' = collaboration_invitations
                /\ response' = r
        /\ UNCHANGED <<quizzes, quiz_collaborators, other>>

\* next((i for i in collaboration_invitations if i["id"] == invitation_id), None)
FindInvitation(invitation_id) ==
    FirstIndex({i \in DOMAIN collaboration_invitations :
                   collaboration_invitations[i]["id"] = invitation_id})

\* The checks of respond_to_invitation in the order the code makes them.
RespondResponse(invitation_id, username) ==
    LET ii == FindInvitation(invitation_id) IN
    IF ii = 0 THEN Resp(404, "Invitation not found")
    ELSE IF collaboration_invitations[ii]["invitee"] # username
         THEN Resp(403, "Not authorized to respond to this invitation")
    ELSE IF collaboration_invitations[ii]["status"] # "pending"
         THEN Resp(400, "Invitation already responded to")
    ELSE Resp(200, "")

\* invitation["status"] = "accepted" if action == "accept" else "declined"
RespondedStatus(action) == IF action = "accept" THEN "accepted" ELSE "declined"

\* The dict respond_to_invitation appends on accept.
NewCollaborator(invitation, username) ==
    [quiz_id |-> invitation["quiz_id"],
     username |-> username,
     role |-> invitation["role"],
     status |-> "active",
     invited_by |-> invitation["inviter"]]

\* POST /quiz-collaboration/respond-invitation
respond_to_invitation ==
    \E invitation_id \in InvitationIdInputs, action \in ActionInputs, username \in Users :
        LET r  == RespondResponse(invitation_id, username)
            ii == FindInvitation(invitation_id)
        IN
        /\ call' = [op |-> "respond", invitation_id |-> invitation_id, action |-> action,
                    username |-> username]
        /\ IF r.status = 200
           THEN /\ collaboration_invitations' =
                       [collaboration_invitations EXCEPT ![ii]["status"] = RespondedStatus(action)]
                /\ IF action = "accept"
                   THEN /\ quiz_collaborators' =
                               Append(quiz_collaborators,
                                      NewCollaborator(collaboration_invitations[ii], username))
                        /\ response' = [status |-> 200, detail |-> "Invitation accepted",
                                        collaborator |->
                                            NewCollaborator(collaboration_invitations[ii], username)]
                   ELSE /\ quiz_collaborators' = quiz_collaborators
                        /\ response' = Resp(200, "Invitation declined")
           ELSE /\ UNCHANGED collab
                /\ response' = r
        /\ UNCHANGED <<quizzes, other>>

\* [c for c in quiz_collaborators if c["quiz_id"] == quiz_id and c["status"] == "active"]
ActiveCollaborators(quiz_id) ==
    SelectSeq(quiz_collaborators,
              LAMBDA c : c["quiz_id"] = quiz_id /\ c["status"] = "active")

\* The response of get_quiz_collaborators: the owner entry is built from
\* quiz["creator"] (line 873).
CollaboratorsResponse(quiz_id) ==
    LET qi == FindQuiz(quiz_id) IN
    IF qi = 0 THEN Resp(404, "Quiz not found")
    ELSE IF ~HasKey(quizzes[qi], "creator") THEN ServerError("KeyError: 'creator'")
    ELSE [status |-> 200, detail |-> "",
          collaborators |->
              <<[quiz_id |-> quiz_id, username |-> quizzes[qi]["creator"],
                 role |-> "owner", status |-> "active"]>>
              \o ActiveCollaborators(quiz_id)]

\* GET /quiz-collaboration/{quiz_id}/collaborators
get_quiz_collaborators ==
    \E quiz_id \in QuizIdInputs :
        /\ call' = [op |-> "collaborators", quiz_id |-> quiz_id]
        /\ response' = CollaboratorsResponse(quiz_id)
        /\ UNCHANGED <<quizzes, collab, other>>

\* remove_collaborator lines 892-894: the remover's collaborator row with role admin
RemoverCollab(quiz_id, remover_username) ==
    FirstIndex({i \in DOMAIN quiz_collaborators :
                   /\ quiz_collaborators[i]["quiz_id"] = quiz_id
                   /\ quiz_collaborators[i]["username"] = remover_username
                   /\ quiz_collaborators[i]["role"] = "admin"})

\* The checks of remove_collaborator in the order the code makes them.
RemoveResponse(quiz_id, username, remover_username) ==
    LET qi == FindQuiz(quiz_id) IN
    IF qi = 0 THEN Resp(404, "Quiz not found")
    ELSE IF ~HasKey(quizzes[qi], "creator") THEN ServerError("KeyError: 'creator'")
    ELSE IF quizzes[qi]["creator"] # remover_username
            /\ RemoverCollab(quiz_id, remover_username) = 0
         THEN Resp(403, "Insufficient permissions")
    ELSE IF username = quizzes[qi]["creator"] THEN Resp(400, "Cannot remove quiz owner")
    ELSE IF ExistingCollaborator(quiz_id, username) = 0 THEN Resp(404, "Collaborator not found")
    ELSE Resp(200, "Collaborator removed successfully")

\* DELETE /quiz-collaboration/{quiz_id}/collaborators/{username}
remove_collaborator ==
    \E quiz_id \in QuizIdInputs, username \in Users, remover_username \in Users :
        LET r == RemoveResponse(quiz_id, username, remover_username) IN
        /\ call' = [op |-> "remove", quiz_id |-> quiz_id, username |-> username,
                    remover |-> remover_username]
        /\ response' = r
        /\ quiz_collaborators' =
               IF r.status = 200
               THEN RemoveAt(quiz_collaborators, ExistingCollaborator(quiz_id, username))
               ELSE quiz_collaborators
        /\ UNCHANGED <<quizzes, collaboration_invitations, other>>

----------------------------------------------------------------------------
(* Python floats *)

(* A Python float is an IEEE 754 binary64 number.  The scores of this program  *)
(* are never negative, so a float is modelled as [man, exp]: man the 53 bits   *)
(* of its significand, most significant first and beginning with 1, read as a  *)
(* natural number, and the value man * 2^exp; 0.0 has the empty significand.   *)
(* Every operation rounds to the nearest float, ties to the even significand.  *)

Precision == 53

FloatZero == [man |-> <<>>, exp |-> 0]

\* k zero bits
Zeros(k) == [i \in 1..k |-> 0]

\* the binary digits of the natural number n, without leading zeros
RECURSIVE NatBits(_)
NatBits(n) == IF n = 0 THEN <<>> ELSE Append(NatBits(n \div 2), n % 2)

\* bits + 1
RECURSIVE Inc(_)
Inc(bits) ==
    IF bits = <<>> THEN <<1>>
    ELSE IF bits[Len(bits)] = 0 THEN [bits EXCEPT ![Len(bits)] = 1]
    ELSE Append(Inc(SubSeq(bits, 1, Len(bits) - 1)), 0)

\* The float above [man, exp]: the significand plus one, renormalised when it
\* carries into a 54th bit.
RoundUp(man, exp) ==
    LET m == Inc(man) IN
    IF Len(m) > Len(man) THEN [man |-> SubSeq(m, 1, Len(man)), exp |-> exp + 1]
    ELSE [man |-> m, exp |-> exp]

\* bits * 2^exp (bits without leading zeros) rounded to a float
RoundBits(bits, exp) ==
    IF bits = <<>> THEN FloatZero
    ELSE IF Len(bits) <= Precision
    THEN [man |-> bits \o Zeros(Precision - Len(bits)), exp |-> exp - (Precision - Len(bits))]
    ELSE LET man  == SubSeq(bits, 1, Precision)
             rest == SubSeq(bits, Precision + 1, Len(bits))
             e    == exp + Len(rest)
             up   == /\ rest[1] = 1
                     /\ \/ \E i \in 2..Len(rest) : rest[i] = 1
                        \/ man[Precision] = 1
         IN  IF up THEN RoundUp(man, e) ELSE [man |-> man, exp |-> e]

\* n further bits of the quotient whose digits so far are acc.bits, with remainder
\* acc.rem, by long division by t.  (A remainder is never negative: the second
\* disjunct only makes TLC evaluate acc at every step.)
RECURSIVE QuotientBits(_, _, _)
QuotientBits(acc, t, n) ==
    IF n = 0 \/ acc.rem < 0 THEN acc
    ELSE QuotientBits([bits |-> Append(acc.bits, (2 * acc.rem) \div t),
                       rem |-> (2 * acc.rem) % t], t, n - 1)

\* the number of zero digits of c / t (0 < c <= t) before its first one, the digit
\* of weight 1 included
RECURSIVE LeadingZeros(_, _)
LeadingZeros(c, t) == IF c >= t THEN 0 ELSE 1 + LeadingZeros(2 * c, t)

\* c / t for integers 0 <= c <= t, 0 < t: the quotient rounded to a float
FloatDiv(c, t) ==
    IF c = 0 THEN FloatZero
    ELSE LET z   == LeadingZeros(c, t)
             q   == QuotientBits([bits |-> <<c \div t>>, rem |-> c % t], t,
                                 z + Precision - 1)
             man == SubSeq(q.bits, z + 1, z + Precision)
             exp == 0 - (z + Precision - 1)
         IN  IF 2 * q.rem > t \/ (2 * q.rem = t /\ man[Precision] = 1)
             THEN RoundUp(man, exp)
             ELSE [man |-> man, exp |-> exp]

\* Long multiplication by the natural number k from digit i of bits down to its
\* first: acc.bits are the digits of the product so far, acc.carry what is carried
\* into the next digit.  (A carry is never negative: the second disjunct only makes
\* TLC evaluate acc at every step.)
RECURSIVE MulCarry(_, _, _, _)
MulCarry(bits, k, i, acc) ==
    IF i = 0 \/ acc.carry < 0 THEN NatBits(acc.carry) \o acc.bits
    ELSE MulCarry(bits, k, i - 1,
                  [bits |-> <<(bits[i] * k + acc.carry) % 2>> \o acc.bits,
                   carry |-> (bits[i] * k + acc.carry) \div 2])

\* the digits of bits * k
MulBits(bits, k) == MulCarry(bits, k, Len(bits), [bits |-> <<>>, carry |-> 0])

\* x * k for a float x and a natural number k: the product rounded to a float
FloatMul(x, k) == IF x.man = <<>> THEN FloatZero ELSE RoundBits(MulBits(x.man, k), x.exp)

\* a <= b for digit strings without leading zeros
BitsLeq(a, b) ==
    \/ Len(a) < Len(b)
    \/ /\ Len(a) = Len(b)
       /\ \/ a = b
          \/ \E i \in DOMAIN a : a[i] < b[i] /\ \A j \in 1..(i - 1) : a[j] = b[j]

\* the significand of x and the digits of n, brought to the same power of two
Aligned(x, n) ==
    IF x.exp <= 0
    THEN [x |-> x.man, n |-> IF n = 0 THEN <<>> ELSE NatBits(n) \o Zeros(0 - x.exp)]
    ELSE [x |-> IF x.man = <<>> THEN <<>> ELSE x.man \o Zeros(x.exp), n |-> NatBits(n)]

\* x <= n for a float x and a natural number n
FloatLeqInt(x, n) == BitsLeq(Aligned(x, n).x, Aligned(x, n).n)

\* x = n for a float x and a natural number n
FloatEqInt(x, n) == Aligned(x, n).x = Aligned(x, n).n

----------------------------------------------------------------------------
(* Scoring *)

\* detailed_results of submit_quiz: one entry per submitted answer, matched to the
\* question at the same position.
DetailedResults(quiz, answers) ==
    [i \in 1..Len(answers) |->
        [question |-> quiz["questions"][i]["question"],
         your_answer |-> answers[i],
         correct_answer |-> quiz["questions"][i]["correct"],
         is_correct |-> (answers[i] = quiz["questions"][i]["correct"]),
         options |-> quiz["questions"][i]["options"]]]

\* correct_answers: the positions whose answer equals the question's correct label
CorrectAnswers(quiz, answers) ==
    Cardinality({i \in 1..Len(answers) : answers[i] = quiz["questions"][i]["correct"]})

\* score = (correct_answers / total_questions) * 100: the division first, then the
\* multiplication, each rounded to a float (line 346).
Score(correct_answers, total_questions) ==
    FloatMul(FloatDiv(correct_answers, total_questions), 100)

\* SubmitResponse scoring only the answers that have a question, instead of
\* failing on the first answer beyond the last question.
SubmitResponse_IgnoresExtraAnswers(quiz_id, answers) ==
    LET qi == FindQuiz(quiz_id) IN
    IF qi = 0 THEN Resp(404, "Quiz not found")
    ELSE LET total == Len(quizzes[qi]["questions"])
             kept  == SubSeq(answers, 1, IF Len(answers) < total THEN Len(answers) ELSE total)
         IN  [status |-> 200, detail |-> "",
              score |-> Score(CorrectAnswers(quizzes[qi], kept), total),
              correct |-> CorrectAnswers(quizzes[qi], kept),
              total |-> total,
              detailed_results |-> DetailedResults(quizzes[qi], kept)]

\* The response of submit_quiz.  quiz["questions"][i] raises IndexError for an
\* answer beyond the last question.
SubmitResponse(quiz_id, answers) ==
    LET qi == FindQuiz(quiz_id) IN
    IF qi = 0 THEN Resp(404, "Quiz not found")
    ELSE IF Len(answers) > Len(quizzes[qi]["questions"])
         THEN ServerError("IndexError: list index out of range")
    ELSE [status |-> 200, detail |-> "",
          score |-> Score(CorrectAnswers(quizzes[qi], answers), Len(quizzes[qi]["questions"])),
          correct |-> CorrectAnswers(quizzes[qi], answers),
          total |-> Len(quizzes[qi]["questions"]),
          detailed_results |-> DetailedResults(quizzes[qi], answers)]

\* POST /submit-quiz.  Lines 349-350 bind leaderboard and quiz_history to new lists
\* local to the call; the entries of lines 357-364 are appended to those, and the
\* module-level quiz_history is not touched.
SubmitQuiz(quiz_id, username, answers) ==
    /\ call' = [op |-> "submit", quiz_id |-> quiz_id, username |-> username,
                answers |-> answers]
    /\ response' = SubmitResponse(quiz_id, answers)
    /\ quiz_history' = quiz_history
    /\ UNCHANGED <<quizzes, collab, db_quizzes, users, quiz_results>>

submit_quiz ==
    \E quiz_id \in QuizIdInputs, username \in SubmitUsers, answers \in AnswerLists :
        SubmitQuiz(quiz_id, username, answers)

----------------------------------------------------------------------------
(* Quiz detail from the database *)

\* sorted(quiz.questions, key=lambda x: x.order): stable, smallest order first
RECURSIVE SortedByOrder(_)
SortedByOrder(qs) ==
    IF qs = <<>> THEN <<>>
    ELSE LET m == FirstIndex({i \in DOMAIN qs : \A j \in DOMAIN qs : qs[i].order <= qs[j].order})
         IN  <<qs[m]>> \o SortedByOrder(RemoveAt(qs, m))

\* db.query(Quiz).filter(Quiz.id == quiz_id).first(), as an index into the table
FindDbQuiz(quiz_id) == FirstIndex({i \in DOMAIN db_quizzes : db_quizzes[i].id = quiz_id})

\* The response of get_quiz: the row of the database table, its questions by order.
QuizDetailResponse(quiz_id) ==
    LET di == FindDbQuiz(quiz_id) IN
    IF di = 0 THEN Resp(404, "Quiz not found")
    ELSE [status |-> 200, detail |-> "",
          id |-> db_quizzes[di].id,
          title |-> db_quizzes[di].title,
          question_count |-> Len(db_quizzes[di].questions),
          questions |-> SortedByOrder(db_quizzes[di].questions)]

\* GET /api/quizzes/{quiz_id}: reads the database table quizzes, to which no
\* handler of app.py adds a row.
get_quiz ==
    \E quiz_id \in QuizIdInputs :
        /\ call' = [op |-> "get", quiz_id |-> quiz_id]
        /\ response' = QuizDetailResponse(quiz_id)
        /\ UNCHANGED <<quizzes, collab, other>>

----------------------------------------------------------------------------
(* Attempt history and analytics *)

\* GET /quiz-history/{username}: the entries of quiz_history with that username
get_quiz_history ==
    \E username \in SubmitUsers :
        /\ call' = [op |-> "history", username |-> username]
        /\ response' = [status |-> 200, detail |-> "",
                        history |-> SelectSeq(quiz_history,
                                              LAMBDA entry : entry["username"] = username)]
        /\ UNCHANGED <<quizzes, collab, other>>

\* The attempts get_quiz_analytics takes for a quiz: the entries of quiz_history
\* with its id under "quiz_id" or with its title (line 509).
AttemptsOf(quiz) ==
    SelectSeq(quiz_history,
              LAMBDA h : Get(h, "quiz_id", Absent) = quiz["id"]
                         \/ h["quiz_title"] = quiz["title"])

\* The key of score_ranges a score is counted under (lines 530-537).
ScoreRange(score) ==
    IF FloatLeqInt(score, 25) THEN "0-25"
    ELSE IF FloatLeqInt(score, 50) THEN "26-50"
    ELSE IF FloatLeqInt(score, 75) THEN "51-75"
    ELSE "76-100"

\* score_distribution: the four ranges in the order of the dict, each with the
\* number of attempts counted under it.
ScoreDistribution(attempts) ==
    [k \in 1..4 |->
        LET range == <<"0-25", "26-50", "51-75", "76-100">>[k] IN
        [range |-> range,
         count |-> Cardinality({i \in DOMAIN attempts :
                                   ScoreRange(attempts[i]["score"]) = range})]]

\* The response of get_quiz_analytics: the quiz, total_attempts and
\* score_distribution.  average_score, attempts_over_time and question_analytics
\* are sums of floats and dates computed from the same attempts and are left out.
QuizAnalyticsResponse(quiz_id) ==
    LET qi == FindQuiz(quiz_id) IN
    IF qi = 0 THEN Resp(404, "Quiz not found")
    ELSE IF AttemptsOf(quizzes[qi]) = <<>>
    THEN [status |-> 200, detail |-> "", quiz |-> quizzes[qi],
          total_attempts |-> 0, score_distribution |-> <<>>]
    ELSE [status |-> 200, detail |-> "", quiz |-> quizzes[qi],
          total_attempts |-> Len(AttemptsOf(quizzes[qi])),
          score_distribution |-> ScoreDistribution(AttemptsOf(quizzes[qi]))]

\* GET /quiz-analytics/{quiz_id}
get_quiz_analytics ==
    \E quiz_id \in QuizIdInputs :
        /\ call' = [op |-> "quiz_analytics", quiz_id |-> quiz_id]
        /\ response' = QuizAnalyticsResponse(quiz_id)
        /\ UNCHANGED <<quizzes, collab, other>>

\* user_quizzes of get_creator_analytics: the quizzes whose created_by is username
UserQuizzes(username) ==
    SelectSeq(quizzes, LAMBDA q : Get(q, "created_by", Absent) = username)

\* the entries of quiz_history with the title of the quiz (line 588)
AttemptsByTitle(quiz) ==
    SelectSeq(quiz_history, LAMBDA h : h["quiz_title"] = quiz["title"])

RECURSIVE SumOf(_)
SumOf(numbers) ==
    IF numbers = <<>> THEN 0 ELSE numbers[1] + SumOf(SubSeq(numbers, 2, Len(numbers)))

\* quiz_performance: one entry per quiz of the creator
QuizPerformance(username) ==
    [i \in DOMAIN UserQuizzes(username) |->
        [quiz_id |-> UserQuizzes(username)[i]["id"],
         quiz_title |-> UserQuizzes(username)[i]["title"],
         attempts |-> Len(AttemptsByTitle(UserQuizzes(username)[i]))]]

\* GET /creator-analytics/{username}: total_quizzes, total_attempts and
\* quiz_performance; the averages are left out as in QuizAnalyticsResponse.
get_creator_analytics ==
    \E username \in SubmitUsers :
        /\ call' = [op |-> "creator_analytics", username |-> username]
        /\ response' =
              [status |-> 200, detail |-> "",
               total_quizzes |-> Len(UserQuizzes(username)),
               total_attempts |->
                   SumOf([i \in DOMAIN UserQuizzes(username) |->
                             QuizPerformance(username)[i].attempts]),
               quiz_performance |-> QuizPerformance(username)]
        /\ UNCHANGED <<quizzes, collab, other>>

----------------------------------------------------------------------------
(* Search *)

\* SearchMatches without the category.
SearchMatches_NoCategory(quiz, search_term) ==
    \/ IsSubstring(search_term, Lower(Chars(quiz["title"])))
    \/ IsSubstring(search_term, Lower(Chars(quiz["description"])))

\* The condition of the comprehension of search_quizzes (lines 431-433)
SearchMatches(quiz, search_term) ==
    \/ IsSubstring(search_term, Lower(Chars(quiz["title"])))
    \/ IsSubstring(search_term, Lower(Chars(quiz["description"])))
    \/ IsSubstring(search_term, Lower(Chars(quiz["category"])))

\* GET /search?q=...
search_quizzes ==
    \E q \in SearchTerms :
        /\ call' = [op |-> "search", q |-> q]
        /\ response' =
              [status |-> 200, detail |-> "",
               quizzes |-> IF q = <<>> THEN quizzes
                           ELSE SelectSeq(quizzes,
                                          LAMBDA quiz : SearchMatches(quiz, Lower(q)))]
        /\ UNCHANGED <<quizzes, collab, other>>

----------------------------------------------------------------------------
(* Accounts, recorded results and the leaderboard *)

\* RegisterResponse without the lookup of the email.
RegisterResponse_NoEmailLookup(user) ==
    IF \E i \in DOMAIN users : users[i].username = user.username
    THEN Resp(400, "Username already exists")
    ELSE [status |-> 200, detail |-> "", sub |-> user.username, token_type |-> "bearer"]

\* The response of register: the username is looked up first, then the email.
RegisterResponse(user) ==
    IF \E i \in DOMAIN users : users[i].username = user.username
    THEN Resp(400, "Username already exists")
    ELSE IF \E i \in DOMAIN users : users[i].email = user.email
    THEN Resp(400, "Email already exists")
    ELSE [status |-> 200, detail |-> "", sub |-> user.username, token_type |-> "bearer"]

\* POST /register.  No row is ever deleted, so the new primary key is the number
\* of rows plus one.
register ==
    \E user \in RegisterInputs :
        /\ call' = [op |-> "register", user |-> user]
        /\ response' = RegisterResponse(user)
        /\ users' = IF RegisterResponse(user).status = 200
                    THEN Append(users, [id |-> Len(users) + 1,
                                        username |-> user.username,
                                        email |-> user.email,
                                        password |-> user.password])
                    ELSE users
        /\ UNCHANGED <<quizzes, collab, quiz_history, db_quizzes, quiz_results>>

\* POST /quiz-history: a row of quiz_results for user 1 and quiz 1, whatever the
\* body names (lines 443-444).  The foreign keys are not enforced by the SQLite
\* engine the tests run on (conftest.py:10-16).
submit_quiz_result ==
    \E quiz_data \in ResultInputs :
        /\ Len(quiz_results) < MaxResults
        /\ call' = [op |-> "result", quiz_data |-> quiz_data]
        /\ quiz_results' = Append(quiz_results,
                                  [id |-> Len(quiz_results) + 1,
                                   user_id |-> 1,
                                   quiz_id |-> 1,
                                   score |-> Get(quiz_data, "score", 0),
                                   total_questions |-> Get(quiz_data, "total_questions", 0)])
        /\ response' = [status |-> 200, detail |-> "Quiz result submitted successfully",
                        id |-> Len(quiz_results) + 1]
        /\ UNCHANGED <<quizzes, collab, quiz_history, db_quizzes, users>>

\* the scores of the rows of quiz_results joined to the user (line 270)
ScoresOf(user) ==
    LET rows == SelectSeq(quiz_results, LAMBDA r : r.user_id = user.id)
    IN  [i \in DOMAIN rows |-> rows[i].score]

\* round(sum / count, 1) in tenths, ties to the even tenth.  A tie needs a count
\* that is a multiple of 4, and its average ends in .25 or .75, which a float holds
\* exactly.
RoundedTenths(sum, count) ==
    LET q == (10 * sum) \div count
        r == (10 * sum) % count
    IN  IF 2 * r > count \/ (2 * r = count /\ q % 2 = 1) THEN q + 1 ELSE q

\* One row of the grouped query: the user's name, the sum, the number and the
\* average of the user's scores.
LeaderboardEntry(user) ==
    [username |-> user.username,
     total_score |-> SumOf(ScoresOf(user)),
     quizzes_taken |-> Len(ScoresOf(user)),
     average_score |-> RoundedTenths(SumOf(ScoresOf(user)), Len(ScoresOf(user)))]

\* ORDER BY sum(score) DESC
RECURSIVE SortedByTotal(_)
SortedByTotal(entries) ==
    IF entries = <<>> THEN <<>>
    ELSE LET m == FirstIndex({i \in DOMAIN entries : \A j \in DOMAIN entries :
                                 entries[i].total_score >= entries[j].total_score})
         IN  <<entries[m]>> \o SortedByTotal(RemoveAt(entries, m))

\* The rows of the leaderboard query: an inner join, so only users with a result.
LeaderboardQuery ==
    LET joined == SelectSeq(users, LAMBDA u : ScoresOf(u) # <<>>)
    IN  SortedByTotal([i \in DOMAIN joined |-> LeaderboardEntry(joined[i])])

\* The sample data of lines 283-287, average_score in tenths.
SampleLeaderboard ==
    <<[username |-> "admin", total_score |-> 100, quizzes_taken |-> 5, average_score |-> 850],
      [username |-> "user1", total_score |-> 80, quizzes_taken |-> 4, average_score |-> 800],
      [username |-> "user2", total_score |-> 60, quizzes_taken |-> 3, average_score |-> 750]>>

\* GET /leaderboard
get_leaderboard ==
    /\ call' = [op |-> "leaderboard"]
    /\ response' = [status |-> 200, detail |-> "",
                    leaderboard |-> IF LeaderboardQuery = <<>> THEN SampleLeaderboard
                                    ELSE LeaderboardQuery]
    /\ UNCHANGED <<quizzes, collab, other>>

----------------------------------------------------------------------------

Next ==
    \/ create_quiz
    \/ import_quiz
    \/ invite_collaborator
    \/ respond_to_invitation
    \/ get_quiz_collaborators
    \/ remove_collaborator
    \/ submit_quiz
    \/ get_quiz

Spec == Init /\ [][Next]_vars

\* create_quiz, with the bodies of AttemptQuizInputs
create_quiz_for_attempts == \E quiz_data \in AttemptQuizInputs : CreateQuiz(quiz_data)

\* submit_quiz, with the answers of AttemptAnswerLists
submit_quiz_attempt ==
    \E quiz_id \in QuizIdInputs, username \in SubmitUsers, answers \in AttemptAnswerLists :
        SubmitQuiz(quiz_id, username, answers)

\* The catalog with its readers: scoring, history, analytics and search.
NextAttempts ==
    \/ create_quiz_for_attempts
    \/ submit_quiz_attempt
    \/ get_quiz_history
    \/ get_quiz_analytics
    \/ get_creator_analytics
    \/ search_quizzes

SpecAttempts == Init /\ [][NextAttempts]_vars

\* submit_quiz, with one answer
submit_quiz_one_answer ==
    \E quiz_id \in QuizIdInputs, username \in SubmitUsers :
        SubmitQuiz(quiz_id, username, <<"B">>)

\* Accounts and the leaderboard, with the submissions that should feed it.
NextLeaderboard ==
    \/ create_quiz_for_attempts
    \/ submit_quiz_one_answer
    \/ register
    \/ submit_quiz_result
    \/ get_leaderboard

SpecLeaderboard == Init /\ [][NextLeaderboard]_vars

----------------------------------------------------------------------------
(* What the catalog records and what the collaboration handlers read *)

\* create_quiz and import_quiz store the author under "created_by"; no handler
\* stores a "creator" key, the one invite_collaborator, get_quiz_collaborators and
\* remove_collaborator subscript.
NoCreatorKey ==
    \A i \in 1..Len(quizzes) :
        HasKey(quizzes[i], "created_by") /\ ~HasKey(quizzes[i], "creator")

\* Hence no invitation and no collaborator row is ever stored.
CollaborationEmpty ==
    collaboration_invitations = <<>> /\ quiz_collaborators = <<>>

\* The user the catalog records as the author of quiz quiz_id (FindQuiz # 0).
RecordedCreator(quiz_id) == quizzes[FindQuiz(quiz_id)]["created_by"]

----------------------------------------------------------------------------
(* Claims *)

\* C5: for every existing quiz and every caller who is neither the quiz's creator
\* nor a collaborator of it with role admin or owner, invite and remove both fail
\* with PermissionDenied (403), whatever the other arguments are.
C5_UnprivilegedCallerDenied ==
    [][ /\ (/\ call'.op = "invite"
            /\ FindQuiz(call'.quiz_id) # 0
            /\ RecordedCreator(call'.quiz_id) # call'.inviter
            /\ InviterCollab(call'.quiz_id, call'.inviter) = 0)
           => response'.status = 403
        /\ (/\ call'.op = "remove"
            /\ FindQuiz(call'.quiz_id) # 0
            /\ RecordedCreator(call'.quiz_id) # call'.remover
            /\ InviterCollab(call'.quiz_id, call'.remover) = 0)
           => response'.status = 403 ]_vars

\* C6: for every existing quiz, remove(quizId, creatorUsername, requester) fails
\* with InvalidOperation (400, "Cannot remove quiz owner") for every requester and
\* changes no state.
C6_RemoveOwnerInvalidOperation ==
    [][ (/\ call'.op = "remove"
         /\ FindQuiz(call'.quiz_id) # 0
         /\ call'.username = RecordedCreator(call'.quiz_id))
        => /\ response' = Resp(400, "Cannot remove quiz owner")
           /\ UNCHANGED <<quizzes, collab>> ]_vars

\* C7: for every quiz that entered the catalog through create or import on behalf
\* of user u, invite(quiz, inviter = u, invitee = v), where v has no pending
\* invitation for the quiz and is not a collaborator of it, succeeds and appends a
\* pending invitation for v, with role editor when no role is given.
C7_RecordedCreatorMayInvite ==
    [][ (/\ call'.op = "invite"
         /\ FindQuiz(call'.quiz_id) # 0
         /\ RecordedCreator(call'.quiz_id) = call'.inviter
         /\ ExistingInvitation(call'.quiz_id, call'.invitee) = 0
         /\ ExistingCollaborator(call'.quiz_id, call'.invitee) = 0)
        => /\ response'.status = 200
           /\ Len(collaboration_invitations') = Len(collaboration_invitations) + 1
           /\ LET inv == collaboration_invitations'[Len(collaboration_invitations')]
              IN  /\ inv["quiz_id"] = call'.quiz_id
                  /\ inv["invitee"] = call'.invitee
                  /\ inv["status"] = "pending"
                  /\ (call'.role = Absent => inv["role"] = "editor") ]_vars

\* The outcome C10 states for invite: the first failing precondition, in the order
\* unknown quiz, inviter without permission, pending invitation, collaborator.
C10_StatedStatus(quiz_id, inviter, invitee) ==
    IF FindQuiz(quiz_id) = 0 THEN 404
    ELSE IF RecordedCreator(quiz_id) # inviter /\ InviterCollab(quiz_id, inviter) = 0 THEN 403
    ELSE IF ExistingInvitation(quiz_id, invitee) # 0 THEN 400
    ELSE IF ExistingCollaborator(quiz_id, invitee) # 0 THEN 400
    ELSE 200

\* C10: invite reports the first failing precondition in the fixed order NotFound,
\* PermissionDenied, Conflict (pending invitation), Conflict (collaborator), and
\* succeeds exactly when none fails.
C10_InviteErrorOrder ==
    [][ call'.op = "invite"
        => response'.status =
               C10_StatedStatus(call'.quiz_id, call'.inviter, call'.invitee) ]_vars

\* Every respond call names an invitation id no invitation has (the list is always
\* empty): it is answered 404 and changes nothing.
RespondAlwaysNotFound ==
    [][ call'.op = "respond"
        => response' = Resp(404, "Invitation not found") /\ UNCHANGED <<quizzes, collab>> ]_vars

\* C14: a successful remove(q, u, requester) deletes exactly the one collaborator
\* row of (q, u) and leaves every other row, every invitation and the catalog
\* unchanged; remove of a user with no collaborator row on q (requested by the
\* quiz's creator, the user not being the creator) fails with NotFound (404).
C14_RemoveExactlyOneRow ==
    [][ call'.op = "remove" =>
        /\ response'.status = 200 =>
              /\ ExistingCollaborator(call'.quiz_id, call'.username) # 0
              /\ quiz_collaborators' =
                     RemoveAt(quiz_collaborators,
                              ExistingCollaborator(call'.quiz_id, call'.username))
              /\ \A i \in DOMAIN quiz_collaborators' :
                     ~(/\ quiz_collaborators'[i]["quiz_id"] = call'.quiz_id
                       /\ quiz_collaborators'[i]["username"] = call'.username)
              /\ UNCHANGED <<quizzes, collaboration_invitations>>
        /\ (/\ FindQuiz(call'.quiz_id) # 0
            /\ RecordedCreator(call'.quiz_id) = call'.remover
            /\ RecordedCreator(call'.quiz_id) # call'.username
            /\ ExistingCollaborator(call'.quiz_id, call'.username) = 0)
           => response' = Resp(404, "Collaborator not found") ]_vars

\* C16: for every existing quiz q, listCollaborators(q) returns the implicit owner
\* entry (the quiz's creator, role owner, status active) first, followed by all and
\* only the active collaborator rows of q in list order; it fails with NotFound
\* for an unknown quiz and modifies no collection.
C16_OwnerFirstThenActiveRows ==
    [][ call'.op = "collaborators" =>
        /\ UNCHANGED <<quizzes, collab>>
        /\ FindQuiz(call'.quiz_id) = 0 => response'.status = 404
        /\ FindQuiz(call'.quiz_id) # 0 =>
              /\ response'.status = 200
              /\ response'.collaborators =
                     <<[quiz_id |-> call'.quiz_id,
                        username |-> RecordedCreator(call'.quiz_id),
                        role |-> "owner", status |-> "active"]>>
                     \o ActiveCollaborators(call'.quiz_id) ]_vars

\* C13: every create, import, invite, respond, remove or submit call that ends in
\* an error leaves the catalog, the collaborator list, the invitation list and the
\* attempt history exactly as they were before the call.
C13_ErrorLeavesStateUnchanged ==
    [][ (/\ call'.op \in {"create", "import", "invite", "respond", "remove", "submit"}
         /\ response'.status >= 400)
        => UNCHANGED <<quizzes, quiz_collaborators, collaboration_invitations,
                       quiz_history>> ]_vars

\* A create that carried every required field was rejected for its questions, the
\* catalog holding a quiz already.
C13_Witness ==
    /\ call.op = "create"
    /\ response.status = 400
    /\ HasKey(response, "question")
    /\ Len(quizzes) > 0

\* C17: after any interleaving of create and import calls, successful or not, the
\* quizzes of the catalog have pairwise distinct ids, and each newly assigned id is
\* greater than every id assigned before it.
C17_IdsDistinctAndIncreasing ==
    /\ [](\A i, j \in DOMAIN quizzes : i # j => quizzes[i]["id"] # quizzes[j]["id"])
    /\ [][ quizzes' # quizzes =>
             /\ Len(quizzes') = Len(quizzes) + 1
             /\ \A i \in DOMAIN quizzes :
                    /\ quizzes'[i] = quizzes[i]
                    /\ quizzes'[Len(quizzes')]["id"] > quizzes[i]["id"] ]_vars

\* An imported quiz followed by a created one, and a created one followed by an
\* imported one: both id rules have assigned an id after the other.
C17_Witness ==
    /\ call.op \in {"create", "import"}
    /\ response.status = 400
    /\ \E i \in DOMAIN quizzes :
          /\ i + 1 \in DOMAIN quizzes
          /\ HasKey(quizzes[i], "imported") # HasKey(quizzes[i + 1], "imported")

\* C18: in every reachable state, every question of every quiz of the catalog has
\* at least 2 options and a correct label in {A, B, C, D}, whether the quiz came
\* through create or through import.
C18_QuestionsWellFormed ==
    \A i \in DOMAIN quizzes :
        \A k \in DOMAIN quizzes[i]["questions"] :
            /\ Len(quizzes[i]["questions"][k]["options"]) >= 2
            /\ quizzes[i]["questions"][k]["correct"] \in {"A", "B", "C", "D"}

\* A question C19 calls offending: a field missing, fewer than 2 options, or a
\* correct label outside {A, B, C, D}.
C19_Offending(question) ==
    IF {"question", "options", "correct"} \subseteq DOMAIN question
    THEN Len(question["options"]) < 2 \/ question["correct"] \notin {"A", "B", "C", "D"}
    ELSE TRUE

\* C19: create with a definition that lacks a required field, or has an empty
\* question list, or an offending question, is answered 400; the response names the
\* first missing field (in the order title, description, category, difficulty,
\* time_limit, questions) or else the first offending question (counted from 1),
\* and the catalog is unchanged.
C19_CreateRejectsNamingFirstFault ==
    [][ call'.op = "create" =>
        LET d       == call'.quiz_data
            order   == <<"title", "description", "category", "difficulty", "time_limit",
                         "questions">>
            missing == {i \in DOMAIN order : order[i] \notin DOMAIN d}
        IN  IF missing # {}
            THEN /\ response'.status = 400
                 /\ \E i \in missing : /\ \A j \in missing : i <= j
                                       /\ response'.field = order[i]
                 /\ quizzes' = quizzes
            ELSE IF d["questions"] = <<>>
            THEN response'.status = 400 /\ quizzes' = quizzes
            ELSE LET bad == {k \in DOMAIN d["questions"] : C19_Offending(d["questions"][k])}
                 IN  bad # {} =>
                        /\ response'.status = 400
                        /\ \E k \in bad : /\ \A j \in bad : k <= j
                                          /\ response'.question = k
                        /\ quizzes' = quizzes ]_vars

\* A create whose second question is the first offending one was rejected naming it.
C19_Witness ==
    /\ call.op = "create"
    /\ response.status = 400
    /\ HasKey(response, "question")
    /\ response.question = 2
    /\ ~C19_Offending(call.quiz_data["questions"][1])
    /\ C19_Offending(call.quiz_data["questions"][2])

\* C20: for every valid quiz definition d, create(d) returning quizId followed by
\* get(quizId) returns a quiz, not "not found", whose title and question sequence
\* equal those of d, in the same order.
C20_CreateThenGet ==
    [][ (/\ call.op = "create"
         /\ response.status = 200
         /\ call'.op = "get"
         /\ call'.quiz_id = response.quiz_id)
        => /\ response'.status = 200
           /\ response'.title = call.quiz_data["title"]
           /\ Len(response'.questions) = Len(call.quiz_data["questions"])
           /\ \A k \in DOMAIN response'.questions :
                  response'.questions[k].question_text =
                      call.quiz_data["questions"][k]["question"] ]_vars

\* C21: for every submission against an existing quiz, the result has total = the
\* number of questions of the quiz, correct = the number of positions at which the
\* submitted answer equals the correct label of the question at that position,
\* is_correct flags that agree with that comparison, and score * total =
\* 100 * correct.
C21_ResultMatchesAnswers ==
    [][ (call'.op = "submit" /\ FindQuiz(call'.quiz_id) # 0 /\ response'.status = 200) =>
        LET questions == quizzes[FindQuiz(call'.quiz_id)]["questions"]
            answers   == call'.answers
            right     == {i \in DOMAIN answers : answers[i] = questions[i]["correct"]}
        IN  /\ response'.total = Len(questions)
            /\ response'.correct = Cardinality(right)
            /\ Len(response'.detailed_results) = Len(answers)
            /\ \A i \in DOMAIN answers :
                   response'.detailed_results[i].is_correct <=> i \in right
            /\ FloatEqInt([man |-> MulBits(response'.score.man, response'.total),
                           exp |-> response'.score.exp],
                          100 * response'.correct) ]_vars

\* C22: each successful submit appends exactly one attempt to the shared attempt
\* history and never modifies or removes an existing attempt.
C22_SubmitAppendsOneAttempt ==
    [][ (call'.op = "submit" /\ response'.status = 200) =>
        /\ Len(quiz_history') = Len(quiz_history) + 1
        /\ SubSeq(quiz_history', 1, Len(quiz_history)) = quiz_history ]_vars

\* C23: the leaderboard returns the fixed 3-entry placeholder set exactly when no
\* attempt has been recorded; once an attempt by a user has been recorded, through
\* submit or through the quiz-history endpoint, the leaderboard contains an entry
\* for that user and none of the placeholder entries.
C23_LeaderboardAfterAttempt ==
    [][ (/\ call.op \in {"submit", "result"}
         /\ response.status = 200
         /\ call'.op = "leaderboard")
        => /\ \A i \in DOMAIN response'.leaderboard :
                  response'.leaderboard[i].username \notin {"admin", "user1", "user2"}
           /\ \E i \in DOMAIN response'.leaderboard :
                  response'.leaderboard[i].username =
                      IF call.op = "submit" THEN call.username
                      ELSE Get(call.quiz_data, "username", "Anonymous") ]_vars

\* C24: per-quiz analytics reports a score histogram of exactly four buckets 0-25,
\* 26-50, 51-75, 76-100 for every existing quiz, including one with no attempts,
\* and the four counts sum to total_attempts.
C24_FourBuckets ==
    [][ (call'.op = "quiz_analytics" /\ FindQuiz(call'.quiz_id) # 0) =>
        /\ response'.status = 200
        /\ Len(response'.score_distribution) = 4
        /\ \A k \in 1..4 :
               response'.score_distribution[k].range =
                   <<"0-25", "26-50", "51-75", "76-100">>[k]
        /\ response'.score_distribution[1].count + response'.score_distribution[2].count
             + response'.score_distribution[3].count + response'.score_distribution[4].count
             = response'.total_attempts ]_vars

\* C25: search(term) returns, in insertion order, exactly the catalog quizzes for
\* which the lower-cased term is a substring of the lower-cased title, description
\* or category, and it does not modify the catalog.
C25_SearchReturnsMatches ==
    [][ call'.op = "search" =>
        LET term == Lower(call'.q)
            hit  == {i \in DOMAIN quizzes :
                        \E field \in {"title", "description", "category"} :
                            IsSubstring(term, Lower(Chars(quizzes[i][field])))}
            out  == response'.quizzes
        IN  /\ quizzes' = quizzes
            /\ Len(out) = Cardinality(hit)
            /\ \E pos \in [DOMAIN out -> hit] :
                   /\ \A a, b \in DOMAIN out : a < b => pos[a] < pos[b]
                   /\ \A a \in DOMAIN out : out[a] = quizzes[pos[a]] ]_vars

\* A search in capital letters returned some quizzes of the catalog and not others.
C25_Witness ==
    /\ call.op = "search"
    /\ Lower(call.q) # call.q
    /\ response.quizzes # <<>>
    /\ Len(response.quizzes) < Len(quizzes)

\* C27: no two stored users share a username and no two share an email; register
\* with a taken username fails with 400 "Username already exists" (also when the
\* email is taken too), register with a new username and a taken email fails with
\* 400 "Email already exists", and in both cases the users are unchanged.
C27_UniqueUsers ==
    /\ [](\A i, j \in DOMAIN users :
             i # j => /\ users[i].username # users[j].username
                      /\ users[i].email # users[j].email)
    /\ [][ call'.op = "register" =>
           LET user == call'.user
               name_taken  == \E i \in DOMAIN users : users[i].username = user.username
               email_taken == \E i \in DOMAIN users : users[i].email = user.email
           IN  /\ name_taken =>
                     /\ response'.status = 400
                     /\ response'.detail = "Username already exists"
                     /\ users' = users
               /\ (~name_taken /\ email_taken) =>
                     /\ response'.status = 400
                     /\ response'.detail = "Email already exists"
                     /\ users' = users ]_vars

\* Two users are stored, and a register with a new username and a taken email was
\* turned down.
C27_Witness ==
    /\ call.op = "register"
    /\ response.status = 400
    /\ response.detail = "Email already exists"
    /\ \E i \in DOMAIN users : users[i].email = call.user.email
    /\ \A i \in DOMAIN users : users[i].username # call.user.username

\* C29: analytics attribute every attempt to exactly the one quiz it was submitted
\* against: after a submission against quiz q, the per-quiz analytics of q count
\* it, and in the analytics of q's creator the per-quiz attempt counts sum to
\* total_attempts and count it.
C29_AttemptAttributed ==
    [][ (call.op = "submit" /\ response.status = 200) =>
        /\ (call'.op = "quiz_analytics" /\ call'.quiz_id = call.quiz_id)
              => response'.total_attempts >= 1
        /\ (/\ call'.op = "creator_analytics"
            /\ call'.username = quizzes[FindQuiz(call.quiz_id)]["created_by"])
              => /\ response'.total_attempts >= 1
                 /\ response'.total_attempts =
                        SumOf([i \in DOMAIN response'.quiz_performance |->
                                  response'.quiz_performance[i].attempts]) ]_vars

\* C30: every submit that returns a result satisfies 0 <= correct <= number of
\* submitted answers <= total and 0 <= score <= 100; a submission carrying more
\* answers than the quiz has questions ends in an error and records nothing.
\* (A float [man, exp] is never negative, so 0 <= score needs no conjunct.)
C30_ResultWithinBounds ==
    [][ (call'.op = "submit" /\ FindQuiz(call'.quiz_id) # 0) =>
        /\ response'.status = 200 =>
              /\ 0 <= response'.correct
              /\ response'.correct <= Len(call'.answers)
              /\ Len(call'.answers) <= response'.total
              /\ FloatLeqInt(response'.score, 100)
        /\ Len(call'.answers) > Len(quizzes[FindQuiz(call'.quiz_id)]["questions"]) =>
              /\ response'.status >= 400
              /\ UNCHANGED <<quizzes, quiz_history, quiz_results>> ]_vars

\* A submission of three answers, two of them correct, to the quiz of three
\* questions returned a result.
C30_Witness ==
    /\ call.op = "submit"
    /\ response.status = 200
    /\ Len(call.answers) = 3
    /\ response.correct = 2
    /\ response.total = 3

====
